---- MODULE Spec2Model ----
(***************************************************************************)
(* A model of the account book (src/App.tsx): the two collections kept in  *)
(* the App component's state and mirrored to localStorage, the handlers    *)
(* that change them, the navigation and modal state that decides which     *)
(* handler can run, the summary screen's filter, and the payment reminder  *)
(* with its calls to the text-generation service.                          *)
(*                                                                         *)
(* Amounts are whole numbers of cents.  A calendar date 'YYYY-MM-DD' is    *)
(* the number of its day; an instant is a number of hours since day 0,     *)
(* 00:00 UTC.  A string the code looks into (a customer's name) is a       *)
(* sequence of one-character strings; the others are TLA+ strings.         *)
(***************************************************************************)
EXTENDS Integers, Sequences, FiniteSets, TLC

\* ------------------------------------------------------------- bounds
MaxClock == 1           \* Date.now() reads 0..MaxClock
MaxCustomers == 2       \* customers that are added
MaxTransactions == 2    \* transactions that are added
MaxDay == 1             \* the dates the user can pick are 0..MaxDay
TicksPerDay == 1        \* clock readings per UTC day
MaxReminders == 3       \* clicks on Gen. Reminder

\* ------------------------------------------------------------- values
CREDIT == "credit"
PAYMENT == "payment"
TransactionType == {CREDIT, PAYMENT}

Null == "null"                  \* selectedCustomerId: string | null
NoDate == -1                    \* the '' of an empty date input
Dates == 0..MaxDay
FilterDates == {NoDate} \cup Dates

NameInputs == { <<>>, <<" ">>, <<"A">>, <<" ", "B">> }
PhoneInputs == {"", "555"}
AddressInputs == {""}
InitialDueInputs == {-1, 0, 2}
\* the amount field holds number | '': <<>> is '', <<n>> the number n
AmountInputs == { <<>>, <<-1>>, <<0>>, <<1>> }
DescriptionInputs == {""}
LocalDayHours == {23, 24, 25}   \* a local calendar day, also across a DST change

NameRequired == "Customer name is required."
ValidAmount == "Please enter a valid amount."

VARIABLES
    now,                    \* the value Date.now() returns
    appState,               \* "boot" | "running" | "crashed"
    lsCustomers,            \* localStorage['customers']
    lsTransactions,         \* localStorage['transactions']
    customers,
    transactions,
    currentPage,
    selectedCustomerId,
    isCustomerModalOpen,
    editingCustomer,        \* Customer | null: <<c>> | <<>>
    isTransactionModalOpen,
    transactionType,
    customerFormError,      \* CustomerForm's error
    transactionFormError,   \* TransactionForm's error
    filterCustomerId,
    filterStartDate,
    filterEndDate,
    endDayHours,            \* hours of the local day setDate(+1) steps over
    isReminderModalOpen,
    reminderMessage,
    isGenerating,
    apiKey,                 \* whether process.env.API_KEY is set in the build
    requests,               \* the generateContent calls that have not settled
    triggered,              \* history: the clicks on Gen. Reminder so far
    shown,                  \* history: the click whose result reminderMessage is
    lastHandler             \* history: the handler the last event called

storage == <<lsCustomers, lsTransactions>>
appVars == <<customers, transactions, currentPage, selectedCustomerId,
             isCustomerModalOpen, editingCustomer, isTransactionModalOpen,
             transactionType, isReminderModalOpen, reminderMessage,
             isGenerating>>
reminderVars == <<isReminderModalOpen, reminderMessage, isGenerating>>
callVars == <<apiKey, requests, triggered, shown>>
formVars == <<customerFormError, transactionFormError>>
filterVars == <<filterCustomerId, filterStartDate, filterEndDate, endDayHours>>
vars == <<now, appState, storage, appVars, callVars, formVars, filterVars,
          lastHandler>>

\* ------------------------------------------------------------- helpers
IsWhitespace(ch) == ch \in {" ", "\t", "\n"}

RECURSIVE TrimStart(_)
TrimStart(s) ==
    IF s = <<>> THEN s
    ELSE IF IsWhitespace(Head(s)) THEN TrimStart(Tail(s)) ELSE s

RECURSIVE TrimEnd(_)
TrimEnd(s) ==
    IF s = <<>> THEN s
    ELSE IF IsWhitespace(s[Len(s)]) THEN TrimEnd(SubSeq(s, 1, Len(s) - 1)) ELSE s

\* String.prototype.trim
trim(s) == TrimEnd(TrimStart(s))

\* new Date().toISOString().split('T')[0] when the clock reads t
isoToday(t) == t \div TicksPerDay

\* new Date('YYYY-MM-DD').getTime(): midnight UTC of the day
DateOf(d) == d * 24

\* ------------------------------------------------------------- storage
Absent == [kind |-> "absent", value |-> <<>>]        \* getItem returns null
Malformed == [kind |-> "malformed", value |-> <<>>]  \* a text JSON.parse rejects

\* JSON.stringify writes an object as the list of its own properties, each a
\* key with its value; the order of the list is one the text keeps and
\* JSON.parse does not depend on
Keys == <<"id", "customerId", "type", "amount", "date", "description",
          "name", "phone", "address">>

Members(object) ==
    LET Own(k) == k \in DOMAIN object
        keys == SelectSeq(Keys, Own)
    IN [i \in 1..Len(keys) |-> <<keys[i], object[keys[i]]>>]

\* a slip: the array written from its last element to its first
JSONstringifyBackwards(collection) ==
    [kind |-> "json",
     value |-> [i \in 1..Len(collection) |->
                   Members(collection[Len(collection) + 1 - i])]]

\* JSON.stringify of an array of objects: the elements in the array's order
JSONstringify(collection) ==
    [kind |-> "json",
     value |-> [i \in 1..Len(collection) |-> Members(collection[i])]]

\* the object JSON.parse builds from a list of members: a key takes the
\* value of its last member
ObjectOf(members) ==
    [k \in {members[i][1] : i \in 1..Len(members)} |->
        LET last == CHOOSE i \in 1..Len(members) :
                        /\ members[i][1] = k
                        /\ \A j \in (i + 1)..Len(members) : members[j][1] # k
        IN members[last][2]]

\* JSON.parse of the text of an array of objects
JSONparse(blob) == [i \in 1..Len(blob.value) |-> ObjectOf(blob.value[i])]

\* JSON.parse throws a SyntaxError on this text
ParseThrows(blob) == blob.kind = "malformed"

\* JSON.parse(localStorage.getItem(key) || '[]'), where it does not throw
dataServiceGet(blob) ==
    IF blob.kind = "absent" THEN JSONparse(JSONstringify(<<>>))
    ELSE JSONparse(blob)

\* ------------------------------------------------------------- balances
RECURSIVE DueFold(_, _)
DueFold(ts, acc) ==
    IF ts = <<>> THEN acc
    ELSE DueFold(Tail(ts),
                 IF Head(ts).type = CREDIT THEN acc + Head(ts).amount
                 ELSE acc - Head(ts).amount)

DueIn(txs, customerId) ==
    LET Match(t) == t.customerId = customerId
    IN DueFold(SelectSeq(txs, Match), 0)

getCustomerDue(customerId) == DueIn(transactions, customerId)

RECURSIVE TotalFold(_, _)
TotalFold(cs, total) ==
    IF cs = <<>> THEN total
    ELSE TotalFold(Tail(cs), total + getCustomerDue(Head(cs).id))

totalDueAllCustomers == TotalFold(customers, 0)

\* customers.find(c => c.id === id): <<c>>, or <<>> for undefined
FindCustomer(id) ==
    LET Match(c) == c.id = id
        found == SelectSeq(customers, Match)
    IN IF found = <<>> THEN <<>> ELSE <<Head(found)>>

\* An open Modal lays a fixed, full-window overlay over the page: a click
\* reaches the page's own buttons only when no modal is open.
NoModal ==
    ~isCustomerModalOpen /\ ~isTransactionModalOpen /\ ~isReminderModalOpen

\* what renderPage shows, and whether it can be clicked
HomeVisible ==
    /\ NoModal
    /\ \/ currentPage = "home"
       \/ /\ currentPage = "customerDetails"
          /\ FindCustomer(selectedCustomerId) = <<>>
DetailsVisible ==
    /\ NoModal
    /\ currentPage = "customerDetails"
    /\ FindCustomer(selectedCustomerId) # <<>>
SummaryVisible == NoModal /\ currentPage = "summary"


\* ------------------------------------------------------------- rendering
\* The forms and the screens are components defined inside App's body, so a
\* render of App with changed state mounts them anew: their own state (the
\* form errors, the summary filters) starts again from its initial value.
Remount ==
    /\ customerFormError' = IF appVars' = appVars THEN customerFormError ELSE ""
    /\ transactionFormError' =
           IF appVars' = appVars THEN transactionFormError ELSE ""
    /\ filterCustomerId' = IF appVars' = appVars THEN filterCustomerId ELSE "all"
    /\ filterStartDate' = IF appVars' = appVars THEN filterStartDate ELSE NoDate
    /\ filterEndDate' = IF appVars' = appVars THEN filterEndDate ELSE NoDate
    /\ endDayHours' = IF appVars' = appVars THEN endDayHours ELSE 24

\* the two effects that save a collection when it has changed
Persist ==
    /\ lsCustomers' = JSONstringify(customers')
    /\ lsTransactions' = JSONstringify(transactions')

\* ------------------------------------------------------------- messages
\* A reminder message is its wording with the customer name and the due
\* amount that are put into it (none: <<>> and 0).
Message(text, customerName, dueAmount) ==
    [text |-> text, customerName |-> customerName, dueAmount |-> dueAmount]

NoMessage == Message("", <<>>, 0)
NoBalance == Message("This customer has no outstanding balance.", <<>>, 0)
ErrorMessage ==
    Message("Error generating message. Please check your API key and network connection.",
            <<>>, 0)
\* the wording returned when no API key is configured
TemplateMessage(customerName, dueAmount) ==
    Message("Hi, this is a friendly reminder (API Key not configured)",
            customerName, dueAmount)
\* the text the service wrote for the prompt with this name and amount
GeneratedMessage(customerName, dueAmount) ==
    Message("result.text", customerName, dueAmount)
\* the value of result.text when the response carries no text
Undefined == Message("undefined", <<>>, 0)

\* the reminder as useState leaves it, with no call made
NoReminder ==
    /\ isReminderModalOpen = FALSE
    /\ reminderMessage = NoMessage
    /\ isGenerating = FALSE
    /\ requests = <<>>
    /\ triggered = 0
    /\ shown = 0

\* ------------------------------------------------------------- start
Init ==
    /\ now = 0
    /\ appState = "boot"
    /\ lsCustomers \in {Absent, Malformed, JSONstringify(<<>>)}
    /\ lsTransactions \in {Absent, Malformed, JSONstringify(<<>>)}
    /\ customers = <<>>
    /\ transactions = <<>>
    /\ currentPage = "home"
    /\ selectedCustomerId = Null
    /\ isCustomerModalOpen = FALSE
    /\ editingCustomer = <<>>
    /\ isTransactionModalOpen = FALSE
    /\ transactionType = CREDIT
    /\ customerFormError = ""
    /\ transactionFormError = ""
    /\ filterCustomerId = "all"
    /\ filterStartDate = NoDate
    /\ filterEndDate = NoDate
    /\ endDayHours = 24
    /\ NoReminder
    /\ apiKey = TRUE
    /\ lastHandler = "none"

\* App's first render: the two useState initialisers read the storage; a
\* SyntaxError of JSON.parse leaves the render, and nothing catches it.
Boot ==
    /\ appState = "boot"
    /\ IF ParseThrows(lsCustomers) \/ ParseThrows(lsTransactions)
       THEN /\ appState' = "crashed"
            /\ UNCHANGED <<now, storage, appVars, callVars, formVars, filterVars,
                           lastHandler>>
       ELSE /\ appState' = "running"
            /\ customers' = dataServiceGet(lsCustomers)
            /\ transactions' = dataServiceGet(lsTransactions)
            /\ Persist
            /\ UNCHANGED <<now, currentPage, selectedCustomerId,
                           isCustomerModalOpen, editingCustomer,
                           isTransactionModalOpen, transactionType,
                           reminderVars, callVars, formVars, filterVars,
                           lastHandler>>

\* The user loads the page again: the page's state is lost, with the calls
\* it was waiting for, and the storage stays.  The two collections keep what
\* the page held when it was left until the first render replaces them.
Reload ==
    /\ appState # "boot"
    /\ appState' = "boot"
    /\ currentPage' = "home"
    /\ selectedCustomerId' = Null
    /\ isCustomerModalOpen' = FALSE
    /\ editingCustomer' = <<>>
    /\ isTransactionModalOpen' = FALSE
    /\ transactionType' = CREDIT
    /\ isReminderModalOpen' = FALSE
    /\ reminderMessage' = NoMessage
    /\ isGenerating' = FALSE
    /\ requests' = <<>>
    /\ triggered' = 0
    /\ shown' = 0
    /\ customerFormError' = ""
    /\ transactionFormError' = ""
    /\ filterCustomerId' = "all"
    /\ filterStartDate' = NoDate
    /\ filterEndDate' = NoDate
    /\ endDayHours' = 24
    /\ lastHandler' = "reload"
    /\ UNCHANGED <<now, storage, customers, transactions, apiKey>>

\* time passes
Tick ==
    /\ now < MaxClock
    /\ now' = now + 1
    /\ UNCHANGED <<appState, storage, appVars, callVars, formVars, filterVars,
                   lastHandler>>

\* ------------------------------------------------------------- handlers
\* a slip: the synthetic credit takes the clock's new reading for its customer
InitialDueTransactionOfClock(newCustomer, initialDue, t2) ==
    [id |-> ToString(t2) \o "t",
     customerId |-> ToString(t2),
     type |-> CREDIT,
     amount |-> initialDue,
     date |-> isoToday(t2),
     description |-> "Initial due"]

\* the synthetic credit of handleAddCustomer, the clock now reading t2
InitialDueTransaction(newCustomer, initialDue, t2) ==
    [id |-> ToString(t2) \o "t",
     customerId |-> newCustomer.id,
     type |-> CREDIT,
     amount |-> initialDue,
     date |-> isoToday(t2),
     description |-> "Initial due"]

\* Date.now() is read for the customer's id and, when there is an initial
\* due, once more (t2) for the transaction's id and date.
handleAddCustomer(name, phone, address, initialDue) ==
    \E t2 \in {t \in {now, now + 1} : t <= MaxClock} :
        LET newCustomer == [id |-> ToString(now), name |-> name,
                            phone |-> phone, address |-> address]
            newTransaction == InitialDueTransaction(newCustomer, initialDue, t2)
        IN /\ Len(customers) < MaxCustomers
           /\ customers' = Append(customers, newCustomer)
           /\ IF initialDue > 0
              THEN /\ Len(transactions) < MaxTransactions
                   /\ transactions' = Append(transactions, newTransaction)
                   /\ now' = t2
              ELSE /\ transactions' = transactions
                   /\ now' = now
           /\ isCustomerModalOpen' = FALSE
           /\ editingCustomer' = <<>>
           /\ UNCHANGED <<appState, currentPage, selectedCustomerId,
                          isTransactionModalOpen, transactionType,
                          reminderVars, callVars>>
           /\ lastHandler' = "handleAddCustomer"
           /\ Persist
           /\ Remount

\* a slip: the map without its condition
MapUpdateAll(prev, customerData) == [i \in 1..Len(prev) |-> customerData]

\* prev.map(c => c.id === customerData.id ? customerData : c)
MapUpdate(prev, customerData) ==
    [i \in 1..Len(prev) |->
        IF prev[i].id = customerData.id THEN customerData ELSE prev[i]]

handleUpdateCustomer(customerData) ==
    /\ customers' = MapUpdate(customers, customerData)
    /\ isCustomerModalOpen' = FALSE
    /\ editingCustomer' = <<>>
    /\ UNCHANGED <<now, appState, transactions, currentPage, selectedCustomerId,
                   isTransactionModalOpen, transactionType, reminderVars,
                   callVars>>
    /\ lastHandler' = "handleUpdateCustomer"
    /\ Persist
    /\ Remount

\* a slip: the new transaction put before the others
SpreadAfter(prev, newTransaction) == <<newTransaction>> \o prev

\* [...prev, newTransaction]
SpreadBefore(prev, newTransaction) == Append(prev, newTransaction)

handleAddTransaction(transactionData) ==
    IF selectedCustomerId = Null
    THEN /\ transactionFormError' = ""
         /\ lastHandler' = "handleAddTransaction"
         /\ UNCHANGED <<now, appState, storage, appVars, callVars, customerFormError,
                        filterVars>>
    ELSE LET newTransaction == [id |-> ToString(now),
                                customerId |-> selectedCustomerId,
                                type |-> transactionType,
                                amount |-> transactionData.amount,
                                date |-> transactionData.date,
                                description |-> transactionData.description]
         IN /\ Len(transactions) < MaxTransactions
            /\ transactions' = SpreadBefore(transactions, newTransaction)
            /\ isTransactionModalOpen' = FALSE
            /\ UNCHANGED <<now, appState, customers, currentPage,
                           selectedCustomerId, isCustomerModalOpen,
                           editingCustomer, transactionType, reminderVars,
                           callVars>>
            /\ lastHandler' = "handleAddTransaction"
            /\ Persist
            /\ Remount

\* ------------------------------------------------------------- forms
\* a slip: the test without trim()
NameMissing(name) == name = <<>>

\* !name.trim()
NameRejected(name) == trim(name) = <<>>

\* a slip: the test without its amount <= 0
AmountMissing(amount) == amount = <<>> \/ amount[1] = 0

\* !amount || amount <= 0
AmountRejected(amount) == amount = <<>> \/ amount[1] = 0 \/ amount[1] <= 0

\* CustomerForm.handleSubmit with the fields as the user left them
CustomerFormSubmit(name, phone, address, initialDue) ==
    /\ appState = "running"
    /\ isCustomerModalOpen
    /\ IF NameRejected(name)
       THEN /\ customerFormError' = NameRequired
            /\ lastHandler' = "none"
            /\ UNCHANGED <<now, appState, storage, appVars, callVars,
                           transactionFormError, filterVars>>
       ELSE IF editingCustomer # <<>>
            THEN handleUpdateCustomer([id |-> editingCustomer[1].id,
                                       name |-> name, phone |-> phone,
                                       address |-> address])
            ELSE handleAddCustomer(name, phone, address, initialDue)

\* TransactionForm.handleSubmit; the date field is left at today, the value
\* it is given when the form mounts
TransactionFormSubmit(amount, description, date) ==
    /\ appState = "running"
    /\ isTransactionModalOpen
    /\ IF AmountRejected(amount)
       THEN /\ transactionFormError' = ValidAmount
            /\ lastHandler' = "none"
            /\ UNCHANGED <<now, appState, storage, appVars, callVars, customerFormError,
                           filterVars>>
       ELSE handleAddTransaction([amount |-> amount[1],
                                  description |-> description, date |-> date])

SubmitCustomer ==
    \E name \in NameInputs, phone \in PhoneInputs, address \in AddressInputs,
       initialDue \in InitialDueInputs :
        CustomerFormSubmit(name, phone, address, initialDue)

SubmitTransaction ==
    \E amount \in AmountInputs, description \in DescriptionInputs, date \in {isoToday(now)} :
        TransactionFormSubmit(amount, description, date)

\* ------------------------------------------------------------- navigation
\* a state setter of App, then the render
SetApp ==
    /\ lastHandler' = "none"
    /\ UNCHANGED <<now, appState, reminderVars, callVars>>
    /\ Persist
    /\ Remount

\* HomeScreen: a click on a customer of the list
SelectCustomer ==
    /\ appState = "running"
    /\ HomeVisible
    /\ \E i \in 1..Len(customers) :
           /\ selectedCustomerId' = customers[i].id
           /\ currentPage' = "customerDetails"
    /\ UNCHANGED <<customers, transactions, isCustomerModalOpen, editingCustomer,
                   isTransactionModalOpen, transactionType>>
    /\ SetApp

\* HomeScreen: the '+' button
OpenAddCustomer ==
    /\ appState = "running"
    /\ HomeVisible
    /\ editingCustomer' = <<>>
    /\ isCustomerModalOpen' = TRUE
    /\ UNCHANGED <<customers, transactions, currentPage, selectedCustomerId,
                   isTransactionModalOpen, transactionType>>
    /\ SetApp

\* HomeScreen: the Summary button of the header
SummaryClick ==
    /\ appState = "running"
    /\ HomeVisible
    /\ currentPage' = "summary"
    /\ UNCHANGED <<customers, transactions, selectedCustomerId,
                   isCustomerModalOpen, editingCustomer, isTransactionModalOpen,
                   transactionType>>
    /\ SetApp

\* the back arrow of the details and summary screens
Back ==
    /\ appState = "running"
    /\ DetailsVisible \/ SummaryVisible
    /\ currentPage' = "home"
    /\ UNCHANGED <<customers, transactions, selectedCustomerId,
                   isCustomerModalOpen, editingCustomer, isTransactionModalOpen,
                   transactionType>>
    /\ SetApp

\* CustomerDetailsScreen: Add Credit, Receive Payment
OpenTransactionModal ==
    /\ appState = "running"
    /\ DetailsVisible
    /\ \E type \in TransactionType : transactionType' = type
    /\ isTransactionModalOpen' = TRUE
    /\ UNCHANGED <<customers, transactions, currentPage, selectedCustomerId,
                   isCustomerModalOpen, editingCustomer>>
    /\ SetApp

\* CustomerDetailsScreen: Edit Info
EditInfo ==
    /\ appState = "running"
    /\ DetailsVisible
    /\ editingCustomer' = FindCustomer(selectedCustomerId)
    /\ isCustomerModalOpen' = TRUE
    /\ UNCHANGED <<customers, transactions, currentPage, selectedCustomerId,
                   isTransactionModalOpen, transactionType>>
    /\ SetApp

\* the customer modal's close button
CloseCustomerModal ==
    /\ appState = "running"
    /\ isCustomerModalOpen
    /\ isCustomerModalOpen' = FALSE
    /\ editingCustomer' = <<>>
    /\ UNCHANGED <<customers, transactions, currentPage, selectedCustomerId,
                   isTransactionModalOpen, transactionType>>
    /\ SetApp

\* CustomerForm's Cancel button
CancelCustomerForm ==
    /\ appState = "running"
    /\ isCustomerModalOpen
    /\ isCustomerModalOpen' = FALSE
    /\ UNCHANGED <<customers, transactions, currentPage, selectedCustomerId,
                   editingCustomer, isTransactionModalOpen, transactionType>>
    /\ SetApp

\* the transaction modal's close button, and TransactionForm's Cancel
CloseTransactionModal ==
    /\ appState = "running"
    /\ isTransactionModalOpen
    /\ isTransactionModalOpen' = FALSE
    /\ UNCHANGED <<customers, transactions, currentPage, selectedCustomerId,
                   isCustomerModalOpen, editingCustomer, transactionType>>
    /\ SetApp

\* ------------------------------------------------------------- summary
\* SummaryScreen's own state: the three filter inputs
SetFilter ==
    /\ appState = "running"
    /\ SummaryVisible
    /\ \/ /\ filterCustomerId' \in
                {"all"} \cup {customers[i].id : i \in 1..Len(customers)}
          /\ UNCHANGED <<filterStartDate, filterEndDate, endDayHours>>
       \/ /\ filterStartDate' \in FilterDates
          /\ UNCHANGED <<filterCustomerId, filterEndDate, endDayHours>>
       \/ /\ filterEndDate' \in FilterDates
          /\ endDayHours' \in IF filterEndDate' = NoDate THEN {24} ELSE LocalDayHours
          /\ UNCHANGED <<filterCustomerId, filterStartDate>>
    /\ UNCHANGED <<now, appState, storage, appVars, callVars, formVars,
                   lastHandler>>

handleResetFilters ==
    /\ appState = "running"
    /\ SummaryVisible
    /\ filterCustomerId' = "all"
    /\ filterStartDate' = NoDate
    /\ filterEndDate' = NoDate
    /\ endDayHours' = 24
    /\ UNCHANGED <<now, appState, storage, appVars, callVars, formVars,
                   lastHandler>>

\* a slip: the start date compared with <=
PassesAfterStart(t) ==
    LET transactionDate == DateOf(t.date)
        endDate == DateOf(filterEndDate) + endDayHours
    IN /\ ~(filterCustomerId # "all" /\ t.customerId # filterCustomerId)
       /\ ~(filterStartDate # NoDate /\ transactionDate <= DateOf(filterStartDate))
       /\ ~(filterEndDate # NoDate /\ transactionDate > endDate)

\* the predicate of transactions.filter(t => ...) in SummaryScreen
Passes(t) ==
    LET transactionDate == DateOf(t.date)
        endDate == DateOf(filterEndDate) + endDayHours
    IN /\ ~(filterCustomerId # "all" /\ t.customerId # filterCustomerId)
       /\ ~(filterStartDate # NoDate /\ transactionDate < DateOf(filterStartDate))
       /\ ~(filterEndDate # NoDate /\ transactionDate > endDate)

filteredTransactions == SelectSeq(transactions, Passes)

RECURSIVE SumOfKind(_, _)
SumOfKind(ts, kind) ==
    IF ts = <<>> THEN 0
    ELSE (IF Head(ts).type = kind THEN Head(ts).amount ELSE 0)
         + SumOfKind(Tail(ts), kind)

totalCredits == SumOfKind(filteredTransactions, CREDIT)
totalPayments == SumOfKind(filteredTransactions, PAYMENT)

\* ------------------------------------------------------------- reminder
\* what the call to ai.models.generateContent can come to: a response with a
\* text, a rejection (no network, a refused key, a body that does not
\* parse), a response that carries no text
Outcomes == {"text", "rejected", "noText"}

\* generateReminderMessage, the call (made when a key is configured) ending
\* in the given outcome
generateReminderMessage(customerName, dueAmount, outcome) ==
    IF ~apiKey THEN TemplateMessage(customerName, dueAmount)
    ELSE IF outcome = "text" THEN GeneratedMessage(customerName, dueAmount)
    ELSE IF outcome = "noText" THEN Undefined
    ELSE ErrorMessage

\* a slip: the test that lets a due of 0 through
NothingDueBelowZero(dueAmount) == dueAmount < 0

\* dueAmount <= 0
NothingDue(dueAmount) == dueAmount <= 0

\* CustomerDetailsScreen: Gen. Reminder.  Without a key the promise is
\* already settled and the lines after the await run before any other
\* event; with a key they wait for the call.
handleGenerateReminder ==
    /\ appState = "running"
    /\ DetailsVisible
    /\ triggered < MaxReminders
    /\ FindCustomer(selectedCustomerId) # <<>>
    /\ LET customer == FindCustomer(selectedCustomerId)[1]
           dueAmount == getCustomerDue(customer.id)
       IN IF NothingDue(dueAmount)
          THEN /\ reminderMessage' = NoBalance
               /\ shown' = triggered + 1
               /\ UNCHANGED <<isGenerating, requests>>
          ELSE IF ~apiKey
          THEN /\ reminderMessage' =
                      generateReminderMessage(customer.name, dueAmount, "text")
               /\ shown' = triggered + 1
               /\ isGenerating' = FALSE
               /\ UNCHANGED requests
          ELSE /\ isGenerating' = TRUE
               /\ requests' = Append(requests,
                                     [trigger |-> triggered + 1,
                                      customerName |-> customer.name,
                                      dueAmount |-> dueAmount])
               /\ UNCHANGED <<reminderMessage, shown>>
    /\ isReminderModalOpen' = TRUE
    /\ triggered' = triggered + 1
    /\ lastHandler' = "none"
    /\ UNCHANGED <<now, appState, customers, transactions, currentPage,
                   selectedCustomerId, isCustomerModalOpen, editingCustomer,
                   isTransactionModalOpen, transactionType, apiKey>>
    /\ Persist
    /\ Remount

\* the lines of handleGenerateReminder after the await, for the i-th of the
\* calls that have not settled
ReminderSettles(i, outcome) ==
    /\ appState = "running"
    /\ i \in 1..Len(requests)
    /\ reminderMessage' = generateReminderMessage(requests[i].customerName,
                                                  requests[i].dueAmount, outcome)
    /\ isGenerating' = FALSE
    /\ requests' = SubSeq(requests, 1, i - 1)
                       \o SubSeq(requests, i + 1, Len(requests))
    /\ shown' = requests[i].trigger
    /\ lastHandler' = "none"
    /\ UNCHANGED <<now, appState, customers, transactions, currentPage,
                   selectedCustomerId, isCustomerModalOpen, editingCustomer,
                   isTransactionModalOpen, transactionType,
                   isReminderModalOpen, apiKey, triggered>>
    /\ Persist
    /\ Remount

\* a call settles; the calls settle in any order
ReminderSettled ==
    \E i \in 1..Len(requests), outcome \in Outcomes : ReminderSettles(i, outcome)

\* the reminder modal's close button
CloseReminderModal ==
    /\ appState = "running"
    /\ isReminderModalOpen
    /\ isReminderModalOpen' = FALSE
    /\ lastHandler' = "none"
    /\ UNCHANGED <<now, appState, customers, transactions, currentPage,
                   selectedCustomerId, isCustomerModalOpen, editingCustomer,
                   isTransactionModalOpen, transactionType, reminderMessage,
                   isGenerating, callVars>>
    /\ Persist
    /\ Remount

\* CustomerDetailsScreen: the list of the customer's transactions, latest
\* date first; filter() makes the array that sort() then orders in place
RECURSIVE SortByDateDescending(_)
SortByDateDescending(ts) ==
    IF ts = <<>> THEN ts
    ELSE LET Later(t) == DateOf(t.date) > DateOf(Head(ts).date)
             NotLater(t) == ~Later(t)
         IN SelectSeq(SortByDateDescending(Tail(ts)), Later)
                \o <<Head(ts)>>
                \o SelectSeq(SortByDateDescending(Tail(ts)), NotLater)

customerTransactions ==
    LET Match(t) == t.customerId = selectedCustomerId
    IN SortByDateDescending(SelectSeq(transactions, Match))

\* ------------------------------------------------------------- behaviour
Next ==
    \/ Boot
    \/ Reload
    \/ Tick
    \/ SubmitCustomer
    \/ SubmitTransaction
    \/ SelectCustomer
    \/ OpenAddCustomer
    \/ SummaryClick
    \/ Back
    \/ OpenTransactionModal
    \/ EditInfo
    \/ CloseCustomerModal
    \/ CancelCustomerForm
    \/ CloseTransactionModal

Spec == Init /\ [][Next]_vars


\* ------------------------------------------------------------- the filter
\* The summary screen over a ledger of two customers: the transactions are
\* drawn from every ledger of one to MaxTransactions entries the form can
\* have built, with any customer, kind and date.
SummaryCustomers ==
    << [id |-> "0", name |-> <<"A">>, phone |-> "", address |-> ""],
       [id |-> "1", name |-> <<" ", "B">>, phone |-> "555", address |-> ""] >>

SummaryLedgers ==
    UNION { { [i \in 1..n |-> [id |-> ToString(i),
                                customerId |-> f[i].customerId,
                                type |-> f[i].type,
                                amount |-> i,
                                date |-> f[i].date,
                                description |-> ""]] :
                f \in [1..n -> [customerId : {"0", "1"},
                                type : TransactionType,
                                date : Dates]] } :
            n \in 1..MaxTransactions }

InitSummary ==
    /\ now = MaxClock
    /\ appState = "running"
    /\ customers = SummaryCustomers
    /\ transactions \in SummaryLedgers
    /\ lsCustomers = JSONstringify(customers)
    /\ lsTransactions = JSONstringify(transactions)
    /\ currentPage = "summary"
    /\ selectedCustomerId = Null
    /\ isCustomerModalOpen = FALSE
    /\ editingCustomer = <<>>
    /\ isTransactionModalOpen = FALSE
    /\ transactionType = CREDIT
    /\ customerFormError = ""
    /\ transactionFormError = ""
    /\ filterCustomerId = "all"
    /\ filterStartDate = NoDate
    /\ filterEndDate = NoDate
    /\ endDayHours = 24
    /\ NoReminder
    /\ apiKey = TRUE
    /\ lastHandler = "none"

NextSummary ==
    \/ SetFilter
    \/ handleResetFilters

SpecSummary == InitSummary /\ [][NextSummary]_vars

\* ------------------------------------------------------------- the calls
\* The reminder over a ledger of two customers as the customer form builds
\* it: the first with an initial due, the second with none.
InitReminder ==
    /\ now = MaxClock
    /\ appState = "running"
    /\ customers = SummaryCustomers
    /\ transactions = <<InitialDueTransaction(SummaryCustomers[1], 2, 0)>>
    /\ lsCustomers = JSONstringify(customers)
    /\ lsTransactions = JSONstringify(transactions)
    /\ currentPage = "home"
    /\ selectedCustomerId = Null
    /\ isCustomerModalOpen = FALSE
    /\ editingCustomer = <<>>
    /\ isTransactionModalOpen = FALSE
    /\ transactionType = CREDIT
    /\ customerFormError = ""
    /\ transactionFormError = ""
    /\ filterCustomerId = "all"
    /\ filterStartDate = NoDate
    /\ filterEndDate = NoDate
    /\ endDayHours = 24
    /\ NoReminder
    /\ apiKey \in BOOLEAN
    /\ lastHandler = "none"

NextReminder ==
    \/ SelectCustomer
    \/ Back
    \/ OpenTransactionModal
    \/ SubmitTransaction
    \/ CloseTransactionModal
    \/ handleGenerateReminder
    \/ ReminderSettled
    \/ CloseReminderModal

SpecReminder == InitReminder /\ [][NextReminder]_vars

\* the transaction takes part in totalCredits and totalPayments
Included(t) ==
    \E j \in 1..Len(filteredTransactions) : filteredTransactions[j] = t

CustomerAxisOpen(t) ==
    filterCustomerId = "all" \/ t.customerId = filterCustomerId
StartAxisOpen(t) == filterStartDate = NoDate \/ t.date >= filterStartDate
EndAxisOpen(t) == filterEndDate = NoDate \/ t.date <= filterEndDate

\* C2: with an end date E set, a transaction dated the day after E takes no
\* part in the filtered credit and payment totals.
DayAfterEndExcluded ==
    \A i \in 1..Len(transactions) :
        (filterEndDate # NoDate /\ transactions[i].date = filterEndDate + 1)
            => ~Included(transactions[i])

\* C3: a transaction dated on the start date is included, one dated on the
\* end date is included, one dated before the start date is excluded, and an
\* absent start or end date restricts nothing (the other axes permitting).
FilterBoundaries ==
    \A i \in 1..Len(transactions) :
        LET t == transactions[i]
        IN /\ (/\ filterStartDate # NoDate
               /\ t.date = filterStartDate
               /\ CustomerAxisOpen(t) /\ EndAxisOpen(t)) => Included(t)
           /\ (/\ filterEndDate # NoDate
               /\ t.date = filterEndDate
               /\ CustomerAxisOpen(t) /\ StartAxisOpen(t)) => Included(t)
           /\ (filterStartDate # NoDate /\ t.date < filterStartDate)
                  => ~Included(t)
           /\ (/\ filterStartDate = NoDate
               /\ CustomerAxisOpen(t) /\ EndAxisOpen(t)) => Included(t)
           /\ (/\ filterEndDate = NoDate
               /\ CustomerAxisOpen(t) /\ StartAxisOpen(t)) => Included(t)

\* a start and an end date are set; one transaction lies on both and is
\* counted, another lies before the start date and is not
FilterBoundariesWitness ==
    /\ filterStartDate # NoDate
    /\ filterEndDate = filterStartDate
    /\ \E i, j \in 1..Len(transactions) :
           /\ transactions[i].date = filterStartDate
           /\ Included(transactions[i])
           /\ transactions[j].date < filterStartDate
           /\ ~Included(transactions[j])
           /\ totalCredits + totalPayments = transactions[i].amount


\* ------------------------------------------------------------- the ledger
CustomerIds == {customers[i].id : i \in 1..Len(customers)}

\* C1: the total due over all customers is the sum of all credits minus the
\* sum of all payments of the transaction collection.
TotalDueIsCreditsMinusPayments ==
    totalDueAllCustomers
        = SumOfKind(transactions, CREDIT) - SumOfKind(transactions, PAYMENT)

\* C4: every transaction's customerId is the id of a customer of the
\* collection.
TransactionsReferenceCustomers ==
    \A i \in 1..Len(transactions) : transactions[i].customerId \in CustomerIds

\* two customers with their own ids, the first with its initial due, the
\* second with a transaction entered in the form
TransactionsReferenceCustomersWitness ==
    /\ Len(customers) = 2
    /\ customers[1].id # customers[2].id
    /\ Len(transactions) = 2
    /\ transactions[1].customerId = customers[1].id
    /\ transactions[1].description = "Initial due"
    /\ transactions[2].customerId = customers[2].id
    /\ transactions[2].description # "Initial due"

\* C5: the customer ids are pairwise distinct, and so are the transaction
\* ids.
IdsUnique ==
    /\ \A i, j \in 1..Len(customers) :
           i # j => customers[i].id # customers[j].id
    /\ \A i, j \in 1..Len(transactions) :
           i # j => transactions[i].id # transactions[j].id

\* C6: the application starts whatever the storage holds, and a collection
\* whose key is absent or whose blob does not parse starts empty.
LoadFailsSoft ==
    [][(appState = "boot" /\ appState' # "boot")
          => /\ appState' = "running"
             /\ lsCustomers.kind \in {"absent", "malformed"}
                    => customers' = <<>>
             /\ lsTransactions.kind \in {"absent", "malformed"}
                    => transactions' = <<>>]_vars

\* the amounts the claim calls missing, zero or negative
BadAmount(amount) == amount = <<>> \/ amount[1] <= 0

\* C7: a submit of the transaction form with a missing, zero or negative
\* amount sets the validation error and leaves the two collections and the
\* modal's open state as they were.
BadAmountRejected ==
    [][\A amount \in AmountInputs, description \in DescriptionInputs,
          date \in Dates :
           (BadAmount(amount) /\ TransactionFormSubmit(amount, description, date))
               => /\ transactionFormError' = ValidAmount
                  /\ UNCHANGED <<customers, transactions,
                                 isTransactionModalOpen>>]_vars

\* the error shows in the transaction form, still open, of a customer who
\* has a transaction already
BadAmountRejectedWitness ==
    /\ transactionFormError = ValidAmount
    /\ isTransactionModalOpen
    /\ Len(transactions) >= 1

\* C8: addCustomer appends one customer with a new id; an initial due above
\* 0 appends one credit of that amount, described "Initial due", dated today,
\* for the new customer, whose due is then the initial due; an initial due
\* of 0 leaves the transactions alone and the new customer's due is 0.
AddCustomerAppends ==
    [][\A name \in NameInputs, phone \in PhoneInputs,
          address \in AddressInputs, initialDue \in InitialDueInputs :
           (/\ trim(name) # <<>>
            /\ initialDue >= 0
            /\ isCustomerModalOpen
            /\ editingCustomer = <<>>
            /\ handleAddCustomer(name, phone, address, initialDue))
               => LET new == customers'[Len(customers')]
                      t == transactions'[Len(transactions')]
                  IN /\ customers' = Append(customers, new)
                     /\ new.name = name /\ new.phone = phone
                     /\ new.address = address
                     /\ new.id \notin CustomerIds
                     /\ initialDue > 0 =>
                            /\ transactions' = Append(transactions, t)
                            /\ t.type = CREDIT
                            /\ t.amount = initialDue
                            /\ t.description = "Initial due"
                            /\ t.date = isoToday(now')
                            /\ t.customerId = new.id
                     /\ initialDue = 0 => transactions' = transactions
                     /\ DueIn(transactions', new.id) = initialDue]_vars

\* C9: a submit of the customer form, adding or editing, with a name that is
\* empty once trimmed sets the error and changes neither collection; so no
\* customer of the collection has a name that is empty once trimmed.
BlankNameRejected ==
    /\ [](\A i \in 1..Len(customers) : trim(customers[i].name) # <<>>)
    /\ [][\A name \in NameInputs, phone \in PhoneInputs,
             address \in AddressInputs, initialDue \in InitialDueInputs :
              (trim(name) = <<>>
                  /\ CustomerFormSubmit(name, phone, address, initialDue))
                  => /\ customerFormError' = NameRequired
                     /\ UNCHANGED <<customers, transactions>>]_vars

\* the error shows in the form that edits a customer, two being stored
BlankNameRejectedWitness ==
    /\ customerFormError = NameRequired
    /\ isCustomerModalOpen
    /\ editingCustomer # <<>>
    /\ Len(customers) = 2

\* C10: updateCustomer puts the form's name, phone and address in the stored
\* records with the edited id and changes nothing else: the ids stay in
\* their places, the transactions and every customer's due are as before;
\* for an id no record has, the map returns the collection as it is.
UpdateCustomerFrame ==
    /\ [][\A name \in NameInputs, phone \in PhoneInputs,
             address \in AddressInputs :
              (/\ isCustomerModalOpen
               /\ editingCustomer # <<>>
               /\ handleUpdateCustomer([id |-> editingCustomer[1].id,
                                        name |-> name, phone |-> phone,
                                        address |-> address]))
                  => /\ Len(customers') = Len(customers)
                     /\ \A i \in 1..Len(customers) :
                            /\ customers'[i].id = customers[i].id
                            /\ customers'[i] =
                                   IF customers[i].id = editingCustomer[1].id
                                   THEN [customers[i] EXCEPT !.name = name,
                                                             !.phone = phone,
                                                             !.address = address]
                                   ELSE customers[i]
                            /\ DueIn(transactions', customers'[i].id)
                                   = DueIn(transactions, customers[i].id)
                     /\ transactions' = transactions]_vars
    /\ [](\A id \in {ToString(t) : t \in 0..MaxClock + 1} \ CustomerIds,
             name \in NameInputs, phone \in PhoneInputs,
             address \in AddressInputs :
              MapUpdate(customers,
                        [id |-> id, name |-> name, phone |-> phone,
                         address |-> address]) = customers)

\* an update has just run on one of two customers with different ids, one
\* of them with a transaction
UpdateCustomerFrameWitness ==
    /\ lastHandler = "handleUpdateCustomer"
    /\ Len(customers) = 2
    /\ customers[1].id # customers[2].id
    /\ customers[1].name # customers[2].name
    /\ Len(transactions) >= 1

\* ------------------------------------------------------------- the reminder
\* C11: a click on Gen. Reminder for a selected customer whose due is 0 or
\* less sets the message to the fixed "no outstanding balance" text, opens
\* the reminder modal and makes no call to the service: no request is added
\* to those that have not settled.
NoBalanceReminder ==
    [][(handleGenerateReminder /\ getCustomerDue(selectedCustomerId) <= 0)
          => /\ reminderMessage' = NoBalance
             /\ isReminderModalOpen'
             /\ requests' = requests]_vars

\* with a key configured, the modal shows the fixed text for a customer who
\* owes nothing, the click being the latest and no call waiting
NoBalanceReminderWitness ==
    /\ apiKey
    /\ getCustomerDue(selectedCustomerId) <= 0
    /\ isReminderModalOpen
    /\ reminderMessage = NoBalance
    /\ triggered >= 1
    /\ shown = triggered
    /\ requests = <<>>

\* C12: whatever the call to the service comes to, generateReminderMessage
\* returns a text and raises nothing, and for every outcome other than a
\* response with its text the text is the fixed error string; so the lines
\* after the await set the reminder message to a text and clear isGenerating.
ReminderAlwaysText ==
    [][\A i \in 1..MaxReminders, outcome \in Outcomes :
           ReminderSettles(i, outcome)
               => /\ reminderMessage' # Undefined
                  /\ outcome # "text" => reminderMessage' = ErrorMessage
                  /\ ~isGenerating']_vars

\* C13: Gen. Reminder cannot start a call while one has not settled: in every
\* reachable state, also after the reminder modal was closed with the call
\* still waiting, at most one call to the service is in flight.
AtMostOneInFlight == Len(requests) <= 1

\* ------------------------------------------------------------- the frame
\* the place in the collection of the customer the details screen shows
ShownCustomer ==
    CHOOSE i \in 1..Len(customers) :
        /\ customers[i].id = selectedCustomerId
        /\ \A j \in 1..(i - 1) : customers[j].id # selectedCustomerId

\* C14: the due of a customer with no transactions is 0; a credit of amount a
\* added for customer c raises c's due by exactly a, a payment of a lowers it
\* by exactly a, and the due of every other customer of the collection stays
\* as it was (a credit of 100 and then a payment of 40 leave a due of 60).
AddTransactionFrame ==
    /\ [](\A i \in 1..Len(customers) :
             (\A j \in 1..Len(transactions) :
                  transactions[j].customerId # customers[i].id)
                 => getCustomerDue(customers[i].id) = 0)
    /\ [](DueFold(<<[type |-> CREDIT, amount |-> 100],
                    [type |-> PAYMENT, amount |-> 40]>>, 0) = 60)
    /\ [][\A amount \in AmountInputs, description \in DescriptionInputs,
             date \in Dates :
              (/\ ~BadAmount(amount)
               /\ TransactionFormSubmit(amount, description, date))
                  => \A i \in 1..Len(customers) :
                         DueIn(transactions', customers[i].id) =
                             IF i # ShownCustomer
                             THEN DueIn(transactions, customers[i].id)
                             ELSE IF transactionType = CREDIT
                             THEN DueIn(transactions, customers[i].id) + amount[1]
                             ELSE DueIn(transactions, customers[i].id) - amount[1]]_vars

\* C15: every transaction of the collection has an amount above 0, whether
\* the transaction form added it or it is the credit of an initial due.
AmountsPositive ==
    \A i \in 1..Len(transactions) : transactions[i].amount > 0

\* the collection holds the credit of the first customer's initial due and a
\* payment entered in the form; the second customer was added with no due
AmountsPositiveWitness ==
    /\ \E i, j \in 1..Len(transactions) :
           /\ transactions[i].description = "Initial due"
           /\ transactions[j].description # "Initial due"
           /\ transactions[j].type = PAYMENT
    /\ Len(customers) = 2
    /\ getCustomerDue(customers[2].id) = 0
    /\ getCustomerDue(customers[1].id) > 0

\* ------------------------------------------------------------- the storage
\* C16: the storage mirrors the state: after every operation and its save,
\* what loading each blob yields equals the collection in memory, field for
\* field and in the same order; so the first render after a reload has
\* exactly the collections the page held before it.
StorageMirrorsState ==
    /\ [](appState = "running" =>
             /\ ~ParseThrows(lsCustomers) /\ ~ParseThrows(lsTransactions)
             /\ dataServiceGet(lsCustomers) = customers
             /\ dataServiceGet(lsTransactions) = transactions)
    /\ [][(lastHandler = "reload" /\ Boot)
             => /\ customers' = customers
                /\ transactions' = transactions]_vars

\* the page has been loaded again and shows the two customers and the two
\* transactions, an initial due and a payment, in the order they had before
StorageMirrorsStateWitness ==
    /\ appState = "running"
    /\ lastHandler = "reload"
    /\ Len(customers) = 2
    /\ customers[1].name # customers[2].name
    /\ Len(transactions) = 2
    /\ transactions[1].description = "Initial due"
    /\ transactions[2].type = PAYMENT
    /\ dataServiceGet(lsCustomers) = customers
    /\ dataServiceGet(lsTransactions) = transactions

\* ------------------------------------------------------------- the history
\* C17: the transaction collection only grows, at its end: over every step
\* the collection before is a prefix of the collection after, the ordering by
\* date that the details screen shows leaving the stored order alone; and no
\* customer is ever removed from the customer collection.
AppendOnly ==
    [][/\ Len(transactions') >= Len(transactions)
       /\ SubSeq(transactions', 1, Len(transactions)) = transactions
       /\ Len(customers') >= Len(customers)
       /\ \A i \in 1..Len(customers) : customers'[i].id = customers[i].id]_vars

\* the details screen lists a customer's two transactions latest first, the
\* reverse of the order the collection keeps them in, the later one having
\* just been added
AppendOnlyWitness ==
    /\ appState = "running"
    /\ currentPage = "customerDetails"
    /\ lastHandler = "handleAddTransaction"
    /\ Len(transactions) = 2
    /\ Len(customerTransactions) = 2
    /\ customerTransactions[1] = transactions[2]
    /\ customerTransactions[2] = transactions[1]
    /\ transactions[1].date < transactions[2].date

\* ------------------------------------------------------------- the calls' order
\* C18: once every call started by Gen. Reminder has settled, the message
\* shown is the result of the latest click on Gen. Reminder: the response of
\* an earlier click, for another customer or an older due, does not replace
\* the result of a later one, a later "no outstanding balance" included.
LatestReminderShown ==
    (requests = <<>> /\ triggered >= 1) => shown = triggered

\* C19: isGenerating is true exactly when at least one call to the service
\* has not settled.
GeneratingIffInFlight == isGenerating <=> (requests # <<>>)

====
